---- MODULE Spec2Model ----
(***************************************************************************)
(* Model of table/rtree_table_reader.cc: RtreeTableReader (Open, the       *)
(* record decoder Next, Get) and RtreeTableIterator (the forward cursor).  *)
(*                                                                         *)
(* The table file is the environment: a sequence of records laid out back  *)
(* to back, a properties block (magic number, data_size) and the file's    *)
(* size.  The model is of a build with NDEBUG, where assert() expands to   *)
(* nothing and the statements after assert(false) run.                     *)
(***************************************************************************)
EXTENDS Integers, Sequences, FiniteSets, TLC

\* ------------------------------------------------------------------ bounds
MaxKey == 2        \* keys are 1..MaxKey, ordered by the comparator as integers
MaxRecs == 2       \* records in a table file
MaxValLen == 1     \* bytes in a record's value
KeyLen == 1        \* bytes in a record's key
FooterLen == 1     \* bytes of the properties/footer region behind the records
MaxCalls == 2      \* collector invocations kept in the history of a Get

\* ------------------------------------------------------- program constants
ValueLenBytes == 4         \* the fixed32 length prefix of a value
data_start_offset_ == 0    \* RtreeTableReader::data_start_offset_

Keys == 1..MaxKey
NoKey == 0                 \* the empty Slice a default-constructed key_ holds
BadKey == MaxKey + 1       \* a target that is not a well-formed internal key
EmptyValue == 0            \* the empty Slice: a value of length 0
MaxScan == MaxRecs + 1     \* Next() calls counted after a SeekToFirst()

OK == "OK"
StatusSet == {"OK", "NotSupported", "Corruption", "IOError", "InvalidFormat"}

\* ------------------------------------------------------- 64-bit quantities
\* A uint64_t is kept as its two 32-bit halves, so that the uint32_t cast of
\* the constructor is the exact truncation: value = hi * 2^32 + lo.
U64(h, l) == [hi |-> h, lo |-> l]
U64Leq(a, b) == a.hi < b.hi \/ (a.hi = b.hi /\ a.lo <= b.lo)
Cast32(x) == x.lo
Widen(n) == U64(0, n)

\* ------------------------------------------------------------- table files
Rec(k, v) == [key |-> k, vlen |-> v]
RecSet == {Rec(k, v) : k \in Keys, v \in 0..MaxValLen}
RecSize(r) == KeyLen + ValueLenBytes + r.vlen

RECURSIVE SeqsUpTo(_, _)
SeqsUpTo(S, n) ==
  IF n = 0 THEN {<<>>}
  ELSE LET shorter == SeqsUpTo(S, n - 1)
       IN shorter \cup {Append(s, x) : s \in {t \in shorter : Len(t) = n - 1}, x \in S}

IsSorted(recs) == \A i \in 1..Len(recs) - 1 : recs[i].key <= recs[i + 1].key

RECURSIVE RecOffset(_, _)
\* byte offset of record i (RecOffset(recs, Len(recs) + 1) is the end of the records)
RecOffset(recs, i) == IF i <= 1 THEN 0 ELSE RecOffset(recs, i - 1) + RecSize(recs[i - 1])
TotalSize(recs) == RecOffset(recs, Len(recs) + 1)

Shapes == {"valid", "bad_magic", "short_file", "overrun", "huge"}

MkTable(recs, shape) ==
  LET total == TotalSize(recs)
      fsize == total + FooterLen
  IN [recs |-> recs,
      shape |-> shape,
      magic_ok |-> shape # "bad_magic",
      data_size |-> CASE shape = "short_file" -> U64(0, fsize + 1)
                      [] shape = "overrun" -> U64(0, total - 1)
                      [] shape = "huge" -> U64(1, total)
                      [] OTHER -> U64(0, total),
      file_size |-> IF shape = "huge" THEN U64(1, fsize) ELSE U64(0, fsize)]

Tables ==
  {MkTable(recs, shape) :
     recs \in {s \in SeqsUpTo(RecSet, MaxRecs) : IsSorted(s)}, shape \in Shapes}
  \ {MkTable(<<>>, "overrun")}

\* A valid table: right magic, records in key order, the properties block's
\* data_size is the size of the record region, and the region lies in the file.
IsValidTable(t) ==
  /\ t.magic_ok
  /\ IsSorted(t.recs)
  /\ t.data_size = U64(0, TotalSize(t.recs))
  /\ U64Leq(t.data_size, t.file_size)

\* index of the record that starts at byte offset o, 0 when none does
RecordAt(t, o) ==
  IF \E i \in 1..Len(t.recs) : RecOffset(t.recs, i) = o
  THEN CHOOSE i \in 1..Len(t.recs) : RecOffset(t.recs, i) = o
  ELSE 0

\* The record codec's failure condition on the file: no well-formed record
\* starts at o, or its value runs past the end of the data region.
Malformed(t, o) ==
  LET i == RecordAt(t, o)
  IN i = 0 \/ ~U64Leq(Widen(RecOffset(t.recs, i + 1)), t.data_size)


\* ------------------------------------------------------------------- state
VARIABLES
  table,         \* the table file handed to Open
  open_status,   \* what Open returned, "none" before the call
  open_step,     \* the step of Open that returned: "none", "props", "mmap", "end"
  table_reader,  \* the caller's unique_ptr<TableReader> output of Open
  iters,         \* the RtreeTableIterator objects, by identity
  get            \* the running or finished RtreeTableReader::Get call

vars == <<table, open_status, open_step, table_reader, iters, get>>
readerVars == <<table, open_status, open_step, table_reader>>

IterIds == {1, 2}

NullReader ==
  [assigned |-> FALSE, data_end_offset |-> 0, file_size_ |-> U64(0, 0),
   is_mmap_mode |-> FALSE, file_data |-> FALSE]

NoIter ==
  [live |-> FALSE, offset_ |-> 0, next_offset_ |-> 0, status_ |-> OK,
   key_ |-> NoKey, value_ |-> EmptyValue,
   pc |-> "idle",
   \* of the last operation, when it is a Seek: its target, and the offset
   \* the iterator was validly positioned at when it was called (else -1)
   target |-> NoKey,
   last_op |-> "none", scan |-> -1, bad_decode |-> FALSE,
   decoded |-> FALSE, seek_from |-> -1]

IdleGet ==
  [pc |-> "idle", target |-> NoKey, offset |-> 0, found_key |-> NoKey,
   found_value |-> EmptyValue, status |-> OK, collected |-> <<>>,
   stopped |-> FALSE, parity |-> 0]

\* -------------------------------------------------------------------- Open
\* ReadTableProperties (table/meta_blocks.cc) as spec.md 4.3 step 1 gives it:
\* it fails on a read error or when the footer's magic number does not match.
ReadTableProperties(t, io_ok) ==
  IF ~io_ok THEN "IOError"
  ELSE IF ~t.magic_ok THEN "InvalidFormat"
  ELSE OK

\* The constructor: data_end_offset is static_cast<uint32_t>(data_size).
RtreeTableReader(t, mmap) ==
  [assigned |-> TRUE, data_end_offset |-> Cast32(t.data_size),
   file_size_ |-> t.file_size, is_mmap_mode |-> mmap, file_data |-> FALSE]

MmapDataIfNeeded(r, read_ok) ==
  IF r.is_mmap_mode
  THEN IF read_ok THEN [s |-> OK, reader |-> [r EXCEPT !.file_data = TRUE]]
       ELSE [s |-> "IOError", reader |-> r]
  ELSE [s |-> OK, reader |-> r]

\* A faulty Open: hands the reader to the caller before the mmap step.
OpenAssignsEarly(old, t, mmap, props_ok, read_ok) ==
  LET s == ReadTableProperties(t, props_ok)
  IN IF s # OK THEN [s |-> s, step |-> "props", table_reader |-> old]
     ELSE LET m == MmapDataIfNeeded(RtreeTableReader(t, mmap), read_ok)
          IN [s |-> m.s, step |-> IF m.s # OK THEN "mmap" ELSE "end",
              table_reader |-> m.reader]

\* RtreeTableReader::Open: the status returned, the return statement that
\* returned it, and the caller's table_reader afterwards (old when Open does
\* not assign it).
OpenResult(old, t, mmap, props_ok, read_ok) ==
  LET s == ReadTableProperties(t, props_ok)
  IN IF s # OK THEN [s |-> s, step |-> "props", table_reader |-> old]
     ELSE LET m == MmapDataIfNeeded(RtreeTableReader(t, mmap), read_ok)
          IN IF m.s # OK
             THEN [s |-> m.s, step |-> "mmap", table_reader |-> old]
             ELSE [s |-> m.s, step |-> "end", table_reader |-> m.reader]

Open(mmap, props_ok, read_ok) ==
  /\ open_status = "none"
  /\ LET r == OpenResult(table_reader, table, mmap, props_ok, read_ok)
     IN /\ open_status' = r.s
        /\ open_step' = r.step
        /\ table_reader' = r.table_reader
  /\ UNCHANGED <<table, iters, get>>

Ready == table_reader.assigned
data_end_offset == table_reader.data_end_offset

\* ---------------------------------------------------------- record decoder
\* RtreeTableReader::Next: the body is commented out; it returns OK and
\* writes neither *offset nor the key and value outputs.
ReaderNext(offset, key, value) ==
  [s |-> OK, offset |-> offset, key |-> key, value |-> value]

\* InternalKeyComparator::Compare: the total order of the keys.
Compare(a, b) == IF a < b THEN -1 ELSE IF a = b THEN 0 ELSE 1

\* What Compare can return on the bytes of two Slices.  Given the empty
\* Slice, ExtractUserKey takes size - 8 of a size of 0 and the comparison
\* reads past the buffer: any outcome.
CompareOutcomes(a, b) ==
  IF a = NoKey \/ b = NoKey THEN {-1, 0, 1} ELSE {Compare(a, b)}

\* ---------------------------------------------------------------- iterator
\* A faulty constructor: the cursor starts at the first record.
NewIterAtStart(end) ==
  [NoIter EXCEPT !.live = TRUE, !.offset_ = data_start_offset_,
                 !.next_offset_ = data_start_offset_, !.last_op = "New"]

NewIter(end) ==
  [NoIter EXCEPT !.live = TRUE, !.offset_ = end, !.next_offset_ = end,
                 !.last_op = "New"]

Valid(it) ==
  it.offset_ < data_end_offset /\ it.offset_ >= data_start_offset_

\* A faulty Next: the decoder is called at data_end_offset too.
IteratorNextOffByOne(it) ==
  LET moved == [it EXCEPT !.offset_ = it.next_offset_]
  IN IF moved.offset_ <= data_end_offset
     THEN LET r == ReaderNext(moved.next_offset_, moved.key_, moved.value_)
              bad == Malformed(table, moved.offset_)
          IN IF r.s # OK
             THEN [moved EXCEPT !.status_ = r.s,
                                !.offset_ = data_end_offset,
                                !.next_offset_ = data_end_offset,
                                !.bad_decode = it.bad_decode \/ bad,
                                !.decoded = TRUE]
             ELSE [moved EXCEPT !.status_ = r.s, !.next_offset_ = r.offset,
                                !.key_ = r.key, !.value_ = r.value,
                                !.bad_decode = it.bad_decode \/ bad,
                                !.decoded = TRUE]
     ELSE moved

\* RtreeTableIterator::Next on the cursor fields.  bad_decode records that
\* a decode was attempted where the file holds no well-formed record, and
\* decoded that the operation in progress called the decoder.
IteratorNext(it) ==
  LET moved == [it EXCEPT !.offset_ = it.next_offset_]
  IN IF moved.offset_ < data_end_offset
     THEN LET r == ReaderNext(moved.next_offset_, moved.key_, moved.value_)
              bad == Malformed(table, moved.offset_)
          IN IF r.s # OK
             THEN [moved EXCEPT !.status_ = r.s,
                                !.offset_ = data_end_offset,
                                !.next_offset_ = data_end_offset,
                                !.bad_decode = it.bad_decode \/ bad,
                                !.decoded = TRUE]
             ELSE [moved EXCEPT !.status_ = r.s, !.next_offset_ = r.offset,
                                !.key_ = r.key, !.value_ = r.value,
                                !.bad_decode = it.bad_decode \/ bad,
                                !.decoded = TRUE]
     ELSE moved

Callable(i) == Ready /\ iters[i].live /\ iters[i].pc = "idle"

\* A faulty design: one cursor kept in the reader and shared by every
\* iterator built from it.
SetIterShared(i, it) ==
  /\ iters' = [k \in IterIds |-> IF k = i \/ iters[k].live THEN it ELSE iters[k]]
  /\ UNCHANGED <<readerVars, get>>

SetIter(i, it) ==
  /\ iters' = [iters EXCEPT ![i] = it]
  /\ UNCHANGED <<readerVars, get>>

\* NewIterator: the iterator is built on the heap when arena is nullptr
\* (arena = FALSE) and in arena memory otherwise, by the same constructor.
NewIterator(i, arena) ==
  /\ Ready
  /\ iters[i].pc = "idle"
  /\ IF ~arena
     THEN SetIter(i, NewIter(data_end_offset))
     ELSE SetIter(i, NewIter(data_end_offset))

\* A faulty SeekToFirst: the first record is not stepped onto.
SeekToFirstNoStep(i) ==
  /\ Callable(i)
  /\ SetIter(i, [iters[i] EXCEPT !.next_offset_ = data_start_offset_,
                                 !.last_op = "SeekToFirst", !.scan = 0,
                                 !.decoded = FALSE, !.target = NoKey,
                                 !.seek_from = -1])

SeekToFirst(i) ==
  /\ Callable(i)
  /\ LET it == [iters[i] EXCEPT !.next_offset_ = data_start_offset_,
                                !.last_op = "SeekToFirst", !.scan = 0,
                                !.decoded = FALSE, !.target = NoKey,
                                 !.seek_from = -1]
     IN IF it.next_offset_ >= data_end_offset
        THEN SetIter(i, [it EXCEPT !.next_offset_ = data_end_offset,
                                   !.offset_ = data_end_offset])
        ELSE SetIter(i, IteratorNext(it))

SeekToLast(i) ==
  /\ Callable(i)
  /\ SetIter(i, [iters[i] EXCEPT !.status_ = "NotSupported",
                                 !.last_op = "SeekToLast", !.scan = -1,
                                 !.decoded = FALSE, !.target = NoKey,
                                 !.seek_from = -1])

SeekForPrev(i, target) ==
  /\ Callable(i)
  /\ SetIter(i, [iters[i] EXCEPT !.status_ = "NotSupported",
                                 !.last_op = "SeekForPrev", !.scan = -1,
                                 !.decoded = FALSE, !.target = NoKey,
                                 !.seek_from = -1])

Prev(i) ==
  /\ Callable(i)
  /\ SetIter(i, [iters[i] EXCEPT !.last_op = "Prev", !.scan = -1,
                                 !.decoded = FALSE, !.target = NoKey,
                                 !.seek_from = -1])

ItNext(i) ==
  /\ Callable(i)
  /\ LET it == [iters[i] EXCEPT
                  !.last_op = "Next", !.decoded = FALSE, !.target = NoKey,
                                 !.seek_from = -1,
                  !.scan = IF @ < 0 THEN @ ELSE IF @ < MaxScan THEN @ + 1 ELSE @]
     IN SetIter(i, IteratorNext(it))

\* Seek, entry: the test of next_offset_ and the loop's initial Next().
SeekBegin(i, target) ==
  /\ Callable(i)
  /\ LET it == [iters[i] EXCEPT !.last_op = "Seek", !.scan = -1,
                                !.target = target, !.decoded = FALSE,
                                !.seek_from = IF Valid(iters[i])
                                              THEN iters[i].offset_ ELSE -1]
     IN IF it.next_offset_ < data_end_offset
        THEN SetIter(i, [IteratorNext(it) EXCEPT !.pc = "seek"])
        ELSE SetIter(i, [it EXCEPT !.offset_ = data_end_offset])

\* Seek, one evaluation of the loop condition and body.
SeekLoop(i) ==
  /\ Ready /\ iters[i].live /\ iters[i].pc = "seek"
  /\ LET it == iters[i]
     IN IF it.status_ = OK /\ Valid(it)
        THEN \E c \in CompareOutcomes(it.key_, it.target) :
               IF c >= 0
               THEN SetIter(i, [it EXCEPT !.pc = "idle"])
               ELSE SetIter(i, IteratorNext(it))
        ELSE SetIter(i, [it EXCEPT !.pc = "idle"])


\* --------------------------------------------------------------------- Get
\* A faulty entry: the result of ParseInternalKey is not tested.
GetBeginNoParse(target) ==
  /\ Ready
  /\ get.pc \in {"idle", "done"}
  /\ \E garbage \in Keys :
       get' = [IdleGet EXCEPT !.pc = "loop", !.target = target,
                              !.found_key = garbage]
  /\ UNCHANGED <<readerVars, iters>>

\* Get, entry: found_key is declared without an initializer and the decoder
\* never writes it, so it holds whatever the stack held: any key.  A target
\* that ParseInternalKey rejects returns Corruption at once.
GetBegin(target) ==
  /\ Ready
  /\ get.pc \in {"idle", "done"}
  /\ \E garbage \in Keys :
       get' = IF target = BadKey
              THEN [IdleGet EXCEPT !.pc = "done", !.target = target,
                                   !.found_key = garbage,
                                   !.status = "Corruption"]
              ELSE [IdleGet EXCEPT !.pc = "loop", !.target = target,
                                   !.found_key = garbage]
  /\ UNCHANGED <<readerVars, iters>>

\* The history of collector invocations keeps the first MaxCalls of them.
Collect(history, key, value) ==
  IF Len(history) < MaxCalls THEN Append(history, <<key, value>>) ELSE history

\* A faulty loop: the while condition lets the scan run at data_end_offset.
GetIterationOffByOne(g, ret) ==
  IF g.offset <= data_end_offset
  THEN LET r == ReaderNext(g.offset, g.found_key, g.found_value)
           cmp == Compare(r.key, g.target)
       IN IF r.s # OK
          THEN [g EXCEPT !.pc = "done", !.status = r.s, !.parity = 1 - @]
          ELSE IF cmp >= 0
               THEN LET seen == [g EXCEPT !.offset = r.offset,
                                          !.parity = 1 - @,
                                          !.found_key = r.key,
                                          !.found_value = r.value,
                                          !.collected = Collect(@, r.key, r.value)]
                    IN IF ~ret
                       THEN [seen EXCEPT !.pc = "done", !.status = OK,
                                         !.stopped = TRUE]
                       ELSE seen
               ELSE [g EXCEPT !.offset = r.offset, !.found_key = r.key,
                              !.found_value = r.value, !.parity = 1 - @]
  ELSE [g EXCEPT !.pc = "done", !.status = OK]

\* A faulty loop: the result of SaveValue does not end the scan.
GetIterationNoBreak(g, ret) ==
  IF g.offset < data_end_offset
  THEN LET r == ReaderNext(g.offset, g.found_key, g.found_value)
           cmp == Compare(r.key, g.target)
       IN IF r.s # OK
          THEN [g EXCEPT !.pc = "done", !.status = r.s, !.parity = 1 - @]
          ELSE IF cmp >= 0
               THEN LET seen == [g EXCEPT !.offset = r.offset,
                                          !.parity = 1 - @,
                                          !.found_key = r.key,
                                          !.found_value = r.value,
                                          !.collected = Collect(@, r.key, r.value)]
                    IN IF ~ret
                       THEN [seen EXCEPT !.stopped = TRUE]
                       ELSE seen
               ELSE [g EXCEPT !.offset = r.offset, !.found_key = r.key,
                              !.found_value = r.value, !.parity = 1 - @]
  ELSE [g EXCEPT !.pc = "done", !.status = OK]

\* Get, one evaluation of the while condition and the loop body; ret is what
\* get_context->SaveValue returns when it is called.  parity is the number
\* of loop bodies run (records decoded) so far, modulo 2: it makes an
\* iteration that leaves every variable of the code as it was a step all
\* the same.
GetIteration(g, ret) ==
  IF g.offset < data_end_offset
  THEN LET r == ReaderNext(g.offset, g.found_key, g.found_value)
           cmp == Compare(r.key, g.target)
       IN IF r.s # OK
          THEN [g EXCEPT !.pc = "done", !.status = r.s, !.parity = 1 - @]
          ELSE IF cmp >= 0
               THEN LET seen == [g EXCEPT !.offset = r.offset,
                                          !.parity = 1 - @,
                                          !.found_key = r.key,
                                          !.found_value = r.value,
                                          !.collected = Collect(@, r.key, r.value)]
                    IN IF ~ret
                       THEN [seen EXCEPT !.pc = "done", !.status = OK,
                                         !.stopped = TRUE]
                       ELSE seen
               ELSE [g EXCEPT !.offset = r.offset, !.found_key = r.key,
                              !.found_value = r.value, !.parity = 1 - @]
  ELSE [g EXCEPT !.pc = "done", !.status = OK]

GetLoop ==
  /\ Ready
  /\ get.pc = "loop"
  /\ \E ret \in BOOLEAN : get' = GetIteration(get, ret)
  /\ UNCHANGED <<readerVars, iters>>

\* ---------------------------------------------------------- specifications
Init ==
  /\ table \in Tables
  /\ open_status = "none"
  /\ open_step = "none"
  /\ table_reader = NullReader
  /\ iters = [i \in IterIds |-> NoIter]
  /\ get = IdleGet

OpenStep == \E mmap \in BOOLEAN, props_ok \in BOOLEAN, read_ok \in BOOLEAN :
              Open(mmap, props_ok, read_ok)

\* One caller working with one iterator of the reader.
Next ==
  \/ OpenStep
  \/ \E arena \in BOOLEAN : NewIterator(1, arena)
  \/ SeekToFirst(1)
  \/ SeekToLast(1)
  \/ \E t \in Keys : SeekBegin(1, t)
  \/ SeekLoop(1)
  \/ \E t \in Keys : SeekForPrev(1, t)
  \/ ItNext(1)
  \/ Prev(1)

Spec == Init /\ [][Next]_vars

\* One caller issuing Get calls.
GetNext ==
  \/ OpenStep
  \/ \E t \in Keys \cup {BadKey} : GetBegin(t)
  \/ GetLoop

GetSpec == Init /\ [][GetNext]_vars

\* Get runs on the caller's thread: a started loop keeps executing.
FairGetSpec == GetSpec /\ WF_vars(GetLoop)

\* Callers working at the same time with two iterators of one reader and with
\* Get calls, their steps interleaved in any order, over the table files of
\* at most one record, with an empty value, with the right magic number.
ForwardOps(i) ==
  \/ \E arena \in BOOLEAN : NewIterator(i, arena)
  \/ SeekToFirst(i)
  \/ \E t \in Keys : SeekBegin(i, t)
  \/ SeekLoop(i)
  \/ ItNext(i)

ConcInit ==
  /\ Init
  /\ Len(table.recs) <= 1
  /\ table.shape \in {"valid", "overrun"}
  /\ \A j \in 1..Len(table.recs) : table.recs[j].vlen = EmptyValue

ConcNext ==
  \/ OpenStep
  \/ \E i \in IterIds : ForwardOps(i)
  \/ \E t \in Keys : GetBegin(t)
  \/ GetLoop

ConcSpec == ConcInit /\ [][ConcNext]_vars


\* ------------------------------------------------------------------ claims
IdleIter(i) == Ready /\ iters[i].live /\ iters[i].pc = "idle"
InRange(it) == data_start_offset_ <= it.offset_ /\ it.offset_ < data_end_offset

\* index of the first record, in storage order, whose key is >= target;
\* 0 when there is none
FirstAtLeast(recs, target) ==
  IF \E j \in 1..Len(recs) : recs[j].key >= target
  THEN CHOOSE j \in 1..Len(recs) :
         /\ recs[j].key >= target
         /\ \A k \in 1..(j - 1) : recs[k].key < target
  ELSE 0

\* the (key, value) pairs of the records with key >= target, in storage order
Matching(recs, target) ==
  LET AtLeast(r) == r.key >= target
      sel == SelectSeq(recs, AtLeast)
  IN [j \in 1..Len(sel) |-> <<sel[j].key, sel[j].vlen>>]

IsPrefix(a, b) == Len(a) <= Len(b) /\ \A j \in 1..Len(a) : a[j] = b[j]

\* C1: on a valid table, SeekToFirst() followed by n Next() calls stands on
\* record n + 1 in storage order while there is one, and once every record
\* was visited the iterator is invalid with offset_ = data_end_offset.
C1_ScanVisitsRecordsThenEnds ==
  \A i \in IterIds :
    (IdleIter(i) /\ IsValidTable(table) /\ iters[i].scan >= 0) =>
      IF iters[i].scan < Len(table.recs)
      THEN /\ Valid(iters[i])
           /\ iters[i].offset_ = RecOffset(table.recs, iters[i].scan + 1)
      ELSE /\ ~Valid(iters[i])
           /\ iters[i].offset_ = data_end_offset

\* C2: a Seek(T) that returns on a freshly created iterator of a valid table
\* leaves it invalid only if no record has key >= T, and otherwise valid on
\* the first record in storage order whose key is >= T.
C2_SeekOnFreshFindsFirstAtLeast ==
  [][\A i \in IterIds :
       ( /\ IsValidTable(table)
         /\ iters[i].live /\ iters[i].last_op = "New"
         /\ iters'[i].last_op = "Seek" /\ iters'[i].pc = "idle" ) =>
         LET first == FirstAtLeast(table.recs, iters'[i].target)
         IN IF first = 0
            THEN ~Valid(iters'[i])
            ELSE /\ Valid(iters'[i])
                 /\ iters'[i].offset_ = RecOffset(table.recs, first)]_vars

\* C3: during and after Get(target) on a valid table the collector has been
\* invoked on a prefix of the records with key >= target, each once and in
\* storage order, and on all of them when Get returns without the collector
\* having returned false.
C3_GetCollectsExactlyMatching ==
  (Ready /\ IsValidTable(table) /\ get.pc \in {"loop", "done"}
     /\ get.target \in Keys) =>
    /\ IsPrefix(get.collected, Matching(table.recs, get.target))
    /\ (get.pc = "done" /\ ~get.stopped) =>
         get.collected = Matching(table.recs, get.target)

\* C4: a Get call with a well-formed target that entered its scan loop over
\* a valid table eventually returns.
C4_GetEventuallyReturns ==
  (get.pc = "loop" /\ IsValidTable(table)) ~> (get.pc = "done")

\* C5: after SeekToLast() or Prev(), whatever the state they were called in,
\* status() is NotSupported and the iterator is invalid.
C5_ReverseOpsLeaveNotSupportedInvalid ==
  \A i \in IterIds :
    (IdleIter(i) /\ iters[i].last_op \in {"SeekToLast", "Prev"}) =>
      /\ iters[i].status_ = "NotSupported"
      /\ ~Valid(iters[i])

\* C6: in every state between two operations, Valid() is true exactly when
\* data_start_offset <= offset < data_end_offset and status() is ok.
C6_ValidIffInRangeAndOk ==
  \A i \in IterIds :
    IdleIter(i) =>
      (Valid(iters[i]) <=> (InRange(iters[i]) /\ iters[i].status_ = OK))

\* C7: a non-ok status() stays non-ok across every step that is not part of
\* a Seek or a SeekToFirst (or the creation of a new iterator).
C7_StatusStaysNonOk ==
  [][\A i \in IterIds :
       ( /\ iters[i].live /\ iters[i].status_ # OK
         /\ iters'[i].last_op \notin {"Seek", "SeekToFirst", "New"} ) =>
         iters'[i].status_ # OK]_vars

\* C8: once a decode inside Next() met bytes that are no well-formed record,
\* status() is non-ok, offset_ and next_offset_ are data_end_offset and the
\* iterator is invalid, after that operation and after every later one.
C8_DecodeFailurePoisons ==
  \A i \in IterIds :
    (IdleIter(i) /\ iters[i].bad_decode) =>
      /\ iters[i].status_ # OK
      /\ iters[i].offset_ = data_end_offset
      /\ iters[i].next_offset_ = data_end_offset
      /\ ~Valid(iters[i])

\* C9: Open assigns the caller's table_reader only when it returns ok: after
\* a failure of the properties read or of the mmap step table_reader is
\* unassigned, and an assigned reader has passed both steps.
C9_OpenAllOrNothing ==
  /\ (open_status \notin {"none", OK}) => table_reader = NullReader
  /\ table_reader.assigned =>
       /\ open_status = OK
       /\ open_step = "end"
       /\ table_reader.is_mmap_mode => table_reader.file_data

\* C9 witness: Open built the reader, the mmap step failed, and the caller's
\* table_reader is unassigned.
C9_Witness ==
  /\ open_step = "mmap"
  /\ open_status = "IOError"
  /\ ~table_reader.assigned

\* C10: an iterator of an opened reader is valid (yields a record) only if
\* the reader's data_end_offset is at most the file's size.
C10_DataRegionInsideFile ==
  \A i \in IterIds :
    (IdleIter(i) /\ Valid(iters[i])) =>
      U64Leq(Widen(data_end_offset), table_reader.file_size_)


\* C11: on a table whose data_size is 0, SeekToFirst() leaves the iterator
\* invalid with offset_ = next_offset_ = data_end_offset and decodes nothing,
\* and Get never invokes the collector, decodes nothing and returns Ok.
C11_EmptyDataRegion ==
  (Ready /\ table.data_size = U64(0, 0)) =>
    /\ \A i \in IterIds :
         (IdleIter(i) /\ iters[i].last_op = "SeekToFirst") =>
           /\ ~Valid(iters[i])
           /\ iters[i].offset_ = data_end_offset
           /\ iters[i].next_offset_ = data_end_offset
           /\ ~iters[i].decoded
    /\ (get.pc \in {"loop", "done"} /\ get.target \in Keys) =>
         /\ get.collected = <<>>
         /\ get.parity = 0
         /\ get.pc = "done" => get.status = OK

\* C11 witness: on an empty data region a SeekToFirst() and a Get call have
\* both finished.
C11_Witness ==
  /\ Ready /\ table.data_size = U64(0, 0)
  /\ \E i \in IterIds : IdleIter(i) /\ iters[i].last_op = "SeekToFirst"
  /\ get.pc = "done" /\ get.target \in Keys

\* C12: once the collector has returned false, Get has returned Ok: the scan
\* is over, with no further decode and no further collector invocation.
C12_CollectorStopEndsGet ==
  get.stopped => (get.pc = "done" /\ get.status = OK)

\* C12 witness: a Get call whose collector returned false on its first
\* invocation, over a non-empty data region.
C12_Witness ==
  /\ get.stopped
  /\ Len(get.collected) = 1
  /\ data_end_offset > 0

\* C13: a Get call whose target is not a well-formed internal key has
\* returned Corruption with no record decoded and no collector invocation.
C13_MalformedTargetIsCorruption ==
  (get.pc # "idle" /\ get.target = BadKey) =>
    /\ get.pc = "done"
    /\ get.status = "Corruption"
    /\ get.collected = <<>>
    /\ get.parity = 0
    /\ get.offset = 0

\* C13 witness: Get was called with a malformed target on a reader with a
\* non-empty data region.
C13_Witness ==
  /\ get.pc = "done" /\ get.target = BadKey
  /\ data_end_offset > 0

\* C14: a step of an operation on one iterator changes that iterator's
\* cursor alone, a step of Get changes the Get call's own locals alone, and
\* neither changes the opened reader or the file.
C14_CursorStateIsPrivate ==
  [][/\ Ready => readerVars' = readerVars
     /\ \A i \in IterIds :
          iters'[i] # iters[i] =>
            /\ get' = get
            /\ \A j \in IterIds \ {i} : iters'[j] = iters[j]
     /\ get' # get => iters' = iters]_vars

\* C14 witness: both iterators are in use, in different positions, while a
\* Get call is inside its scan loop.
C14_Witness ==
  /\ IdleIter(1) /\ iters[1].last_op = "SeekToFirst" /\ Valid(iters[1])
  /\ IdleIter(2) /\ iters[2].last_op = "Next" /\ ~Valid(iters[2])
  /\ get.pc = "loop" /\ get.parity = 1


\* C15: an iterator that NewIterator has just returned is invalid, with
\* offset_ = next_offset_ = data_end_offset and an ok status, and building
\* it decoded no record.
C15_NewIteratorIsInvalid ==
  \A i \in IterIds :
    (Ready /\ iters[i].live /\ iters[i].last_op = "New") =>
      /\ ~Valid(iters[i])
      /\ iters[i].offset_ = data_end_offset
      /\ iters[i].next_offset_ = data_end_offset
      /\ iters[i].status_ = OK
      /\ ~iters[i].decoded

\* C15 witness: a new iterator of a reader whose data region is not empty.
C15_Witness ==
  /\ Ready /\ data_end_offset > 0
  /\ \E i \in IterIds : iters[i].live /\ iters[i].last_op = "New"

\* C16: the reader's data_end_offset is the properties block's data_size,
\* whatever 64-bit value that is.
C16_DataEndIsDataSize ==
  Ready => Widen(data_end_offset) = table.data_size

\* C17: a Seek(T) that returns, called on an iterator of a valid table that
\* stood on a record with key <= T, leaves the iterator on the first record
\* at or after that one whose key is >= T (invalid when there is none).
C17_SeekFromPositioned ==
  \A i \in IterIds :
    LET it == iters[i]
        from == RecordAt(table, it.seek_from)
    IN ( /\ IdleIter(i) /\ IsValidTable(table)
         /\ it.last_op = "Seek" /\ it.seek_from >= 0
         /\ from # 0 /\ table.recs[from].key <= it.target ) =>
         LET later == {j \in from..Len(table.recs) :
                         table.recs[j].key >= it.target}
         IN IF later = {}
            THEN ~Valid(it)
            ELSE /\ Valid(it)
                 /\ it.offset_ =
                      RecOffset(table.recs,
                                CHOOSE j \in later : \A k \in later : j <= k)

\* C18: after a decode that returned ok, the next offset is past the offset
\* decoded at and at most data_end_offset, and the key and value are those
\* of the record at the offset decoded at.
C18_DecodeAdvances ==
  \A i \in IterIds :
    LET it == iters[i]
        at == RecordAt(table, it.offset_)
    IN ( /\ Ready /\ IsValidTable(table)
         /\ it.live /\ it.decoded /\ it.status_ = OK ) =>
         /\ it.next_offset_ > it.offset_
         /\ it.next_offset_ <= data_end_offset
         /\ at # 0 => /\ it.key_ = table.recs[at].key
                      /\ it.value_ = table.recs[at].vlen

\* C19: a step of Next() or Seek() on an iterator whose offset_ is
\* data_end_offset leaves offset_ there and the iterator invalid, and calls
\* the decoder not once.
C19_AtEndIsAbsorbing ==
  [][\A i \in IterIds :
       ( /\ iters[i].live /\ iters[i].offset_ = data_end_offset
         /\ iters'[i] # iters[i]
         /\ iters'[i].last_op \in {"Next", "Seek"} ) =>
         /\ iters'[i].offset_ = data_end_offset
         /\ ~Valid(iters'[i])
         /\ ~iters'[i].decoded]_vars

\* C19 witness: Next() or Seek() has run on an iterator that was at the end
\* of a non-empty data region.
C19_Witness ==
  /\ Ready /\ data_end_offset > 0
  /\ \E i \in IterIds :
       /\ IdleIter(i) /\ iters[i].last_op \in {"Next", "Seek"}
       /\ iters[i].offset_ = data_end_offset

\* C20: between two operations,
\* data_start_offset <= offset_ <= next_offset_ <= data_end_offset.
C20_CursorOrdered ==
  \A i \in IterIds :
    IdleIter(i) =>
      /\ data_start_offset_ <= iters[i].offset_
      /\ iters[i].offset_ <= iters[i].next_offset_
      /\ iters[i].next_offset_ <= data_end_offset

\* C20 witness: an iterator stands on a record after a Next().
C20_Witness ==
  \E i \in IterIds :
    IdleIter(i) /\ iters[i].last_op = "Next" /\ Valid(iters[i])

====
